---- MODULE Spec2Model ----
(***************************************************************************)
(* Model of mllp_sender.py: the MLLP frame codec (build_mllp_frame) and   *)
(* the send loop (send_messages) with its reconnect/backoff supervisor.   *)
(* Text is a sequence of one-character strings, bytes are a sequence of   *)
(* integers 0..255.                                                       *)
(***************************************************************************)
EXTENDS Integers, Sequences, FiniteSets, TLC

VARIABLES
    messages_list,      \* list(messages), fixed for the run
    repeat_count,       \* the cap; 0 = unbounded
    ack,                \* wait for an ACK after each frame
    new_conn_each,      \* recycle the connection after each message
    encoding,           \* name of the text encoding
    pc,                 \* position of send_messages
    attempt,            \* local attempt
    sent_total,         \* local sent_total
    cycle,              \* local cycle
    idx,                \* position of the for loop in messages_list (1-based)
    message,            \* local message (after the optional rewrite)
    frame,              \* local frame
    sock,               \* local sock: "none", "open" or "closed"
    chunks,             \* local chunks of the ack read loop
    data,               \* local data: what the last recv returned
    backoff_seconds,    \* local backoff_seconds
    exc,                \* the exception being handled or propagated
    nopen,              \* number of sockets currently open
    frames,             \* number of frames written by sendall so far
    pending,            \* bytes the peer has sent that recv has not returned
    consecutive,        \* faults since the last successful connection
    opened,             \* number of sockets ensure_socket has returned so far
    conn_frames,        \* frames written on the socket now held (0 when none)
    last_open           \* what opened the socket now held: "connect", "recycle"
                        \* or "none"

vars == <<messages_list, repeat_count, ack, new_conn_each, encoding, pc, attempt,
          sent_total, cycle, idx, message, frame, sock, chunks, data,
          backoff_seconds, exc, nopen, frames, pending, consecutive, opened,
          conn_frames, last_open>>

\* What the run has done with its connections so far.
history == <<opened, conn_frames, last_open>>

config == <<messages_list, repeat_count, ack, new_conn_each, encoding>>

-----------------------------------------------------------------------------
(* Bounds of the model *)

MaxAttempt == 3
MaxFrames == 4
MaxCap == 2
MaxFields == 11

-----------------------------------------------------------------------------
(* Frame codec *)

START_BLOCK == 11
END_BLOCK == 28
CARRIAGE_RETURN == 13

CR == "\r"

\* Code points of the characters the model's messages are made of.
Ord(c) ==
    CASE c = "M" -> 77  [] c = "S" -> 83  [] c = "H" -> 72  [] c = "P" -> 80
      [] c = "I" -> 73  [] c = "D" -> 68  [] c = "Z" -> 90  [] c = "|" -> 124
      [] c = CR -> 13   [] c = "a" -> 97  [] c = "u" -> 117 [] c = "1" -> 49
      [] c = "2" -> 50  [] c = "e'" -> 233

\* str.encode(encoding, errors="strict") of one character; <<>> stands for
\* "not representable" (no character encodes to zero bytes).
EncodeChar(c, enc) ==
    LET n == Ord(c) IN
    IF n < 128 THEN <<n>>
    ELSE IF enc = "utf-8" THEN <<192 + (n \div 64), 128 + (n % 64)>>
    ELSE IF enc = "latin-1" THEN <<n>>
    ELSE <<>>

Encodable(s, enc) == \A k \in 1..Len(s) : EncodeChar(s[k], enc) # <<>>

RECURSIVE EncodeStr(_, _)
EncodeStr(s, enc) ==
    IF s = <<>> THEN <<>> ELSE EncodeChar(Head(s), enc) \o EncodeStr(Tail(s), enc)

\* Mutant of the framing: the closing carriage return is left out.
FrameWithoutReturn(hl7_message, enc) ==
    <<START_BLOCK>> \o EncodeStr(hl7_message, enc) \o <<END_BLOCK>>

build_mllp_frame(hl7_message, enc) ==
    <<START_BLOCK>> \o EncodeStr(hl7_message, enc) \o <<END_BLOCK, CARRIAGE_RETURN>>

-----------------------------------------------------------------------------
(* String helpers of the rewrite *)

\* sub in s
Contains(s, sub) ==
    \E k \in 1..(Len(s) - Len(sub) + 1) : SubSeq(s, k, k + Len(sub) - 1) = sub

\* s.split(sep) for a one-character separator: always at least one piece
RECURSIVE Split(_, _)
Split(s, sep) ==
    IF \A k \in 1..Len(s) : s[k] # sep THEN <<s>>
    ELSE LET p == CHOOSE k \in 1..Len(s) : s[k] = sep /\ \A j \in 1..(k-1) : s[j] # sep
         IN <<SubSeq(s, 1, p - 1)>> \o Split(SubSeq(s, p + 1, Len(s)), sep)

\* sep.join(parts)
RECURSIVE Join(_, _)
Join(parts, sep) ==
    IF parts = <<>> THEN <<>>
    ELSE IF Len(parts) = 1 THEN parts[1]
    ELSE parts[1] \o <<sep>> \o Join(Tail(parts), sep)

MSH_MARK == <<"M", "S", "H", "|">>

\* Mutant of the rewrite: the token goes to field 8.
RewriteWrongField(msg, token) ==
    IF Contains(msg, MSH_MARK) THEN
        LET parts == Split(msg, CR) IN
        LET msh == Split(parts[1], "|") IN
        IF Len(msh) > 9 THEN
            Join([parts EXCEPT ![1] = Join([msh EXCEPT ![9] = token], "|")], CR)
        ELSE msg
    ELSE msg

\* Mutant of the rewrite: nine fields are enough, the last one is rewritten.
RewriteNineFields(msg, token) ==
    IF Contains(msg, MSH_MARK) THEN
        LET parts == Split(msg, CR) IN
        LET msh == Split(parts[1], "|") IN
        IF Len(msh) > 8 THEN
            Join([parts EXCEPT ![1] = Join([msh EXCEPT ![Len(msh)] = token], "|")], CR)
        ELSE msg
    ELSE msg

\* Lines 54-61: the rewrite of field 9 of the first segment with the token
\* str(uuid.uuid4()) returned.
RewriteControlId(msg, token) ==
    IF Contains(msg, MSH_MARK) THEN
        LET parts == Split(msg, CR) IN
        IF parts # <<>> THEN
            LET msh == Split(parts[1], "|") IN
            IF Len(msh) > 9 THEN
                Join([parts EXCEPT ![1] = Join([msh EXCEPT ![10] = token], "|")], CR)
            ELSE msg
        ELSE msg
    ELSE msg

\* Values str(uuid.uuid4()) can return: text without "|" or "\r".
UuidTokens == {<<"u", "1">>, <<"u", "2">>}


-----------------------------------------------------------------------------
(* Inputs *)

\* tag|a|a|...: a segment of n+1 pipe-delimited fields
RECURSIVE Seg(_, _)
Seg(tag, n) == IF n = 0 THEN tag ELSE Seg(tag, n - 1) \o <<"|", "a">>

MSH == <<"M", "S", "H">>
PID == <<"P", "I", "D">>

MsgTen == Seg(MSH, 9) \o <<CR>> \o Seg(PID, 1)       \* header of ten fields
MsgNine == Seg(MSH, 8) \o <<CR>> \o Seg(PID, 1)      \* header of nine fields
MsgLater == Seg(PID, 9) \o <<CR>> \o Seg(MSH, 1)     \* "MSH|" only in segment 2
MsgInner == <<"Z">> \o Seg(MSH, 9)                   \* "MSH|" inside segment 1
MsgPlain == Seg(PID, 1)                              \* no "MSH|" at all
MsgAccent == Seg(MSH, 1) \o <<"e'">>                 \* not representable in ascii

MessageLists ==
    { <<>>, <<MsgTen>>, <<MsgNine, MsgLater>>, <<MsgPlain, MsgInner>>,
      <<MsgTen, MsgAccent>> }

Encodings == {"ascii", "utf-8"}

\* The runs checked: every list under utf-8, and the list with the accented
\* character under ascii as well.
RunInputs ==
    {<<l, "utf-8">> : l \in MessageLists} \cup {<<<<MsgTen, MsgAccent>>, "ascii">>}

\* What a peer may answer to a frame: a terminated ACK, the start of one, or
\* nothing.
AckFrame == <<START_BLOCK, 65, END_BLOCK, CARRIAGE_RETURN>>
PeerResponses == {AckFrame, <<START_BLOCK, 65>>, <<>>}

-----------------------------------------------------------------------------
(* Exceptions *)

Parent(e) ==
    CASE e = "ConnectionRefusedError" -> "ConnectionError"
      [] e = "ConnectionResetError" -> "ConnectionError"
      [] e = "ConnectionError" -> "OSError"
      [] e = "TimeoutError" -> "OSError"
      [] e = "OSError" -> "Exception"
      [] e = "UnicodeEncodeError" -> "UnicodeError"
      [] e = "UnicodeError" -> "ValueError"
      [] e = "ValueError" -> "Exception"
      [] OTHER -> "BaseException"

RECURSIVE IsSubclass(_, _)
IsSubclass(e, h) ==
    \/ e = h
    \/ e # "BaseException" /\ IsSubclass(Parent(e), h)

\* What socket.create_connection (lines 43, 87) and sendall, recv (lines 64,
\* 70) can raise.
ConnectFaults == {"ConnectionRefusedError", "TimeoutError", "OSError"}
StreamFaults == {"ConnectionResetError", "TimeoutError"}

\* Mutants of the except clause: one that takes every exception, one that
\* leaves OSError out.
CaughtBroad(e) == TRUE

CaughtNarrow(e) == \E h \in {"ConnectionRefusedError", "TimeoutError"} : IsSubclass(e, h)

\* Line 94: except (ConnectionRefusedError, TimeoutError, OSError)
Caught(e) == \E h \in {"ConnectionRefusedError", "TimeoutError", "OSError"} : IsSubclass(e, h)

BACKOFF_CEILING == 30

Min(a, b) == IF a < b THEN a ELSE b

\* Line 96
Backoff(n) == Min(BACKOFF_CEILING, 1 + n)

\* Mutant of the cap test: a cap of 0 counts as a cap.
CapReachedAnyCap(total, cap) == total >= cap

\* Mutant of the cap test: > for >=.
CapReachedLate(total, cap) == cap > 0 /\ total > cap

\* Line 81
CapReached(total, cap) == cap > 0 /\ total >= cap

-----------------------------------------------------------------------------
(* send_messages *)

Init ==
    /\ \E r \in RunInputs : messages_list = r[1] /\ encoding = r[2]
    /\ repeat_count \in 0..MaxCap
    /\ ack \in BOOLEAN
    /\ new_conn_each \in BOOLEAN
    /\ pc = "start"
    /\ attempt = 0
    /\ sent_total = 0
    /\ cycle = 0
    /\ idx = 0
    /\ message = <<>>
    /\ frame = <<>>
    /\ sock = "none"
    /\ chunks = <<>>
    /\ data = <<>>
    /\ backoff_seconds = 0
    /\ exc = "none"
    /\ nopen = 0
    /\ frames = 0
    /\ pending = <<>>
    /\ consecutive = 0
    /\ opened = 0
    /\ conn_frames = 0
    /\ last_open = "none"

\* Mutant of the entry: the list is not checked.
StartUnchecked ==
    /\ pc = "start"
    /\ pc' = "connect" /\ exc' = "none"
    /\ UNCHANGED <<config, attempt, sent_total, cycle, idx, message, frame, sock,
                   chunks, data, backoff_seconds, nopen, frames, pending, consecutive,
                   history>>

\* Lines 32-38: reject an empty list, else initialise the counters.
Start ==
    /\ pc = "start"
    /\ IF messages_list = <<>>
       THEN pc' = "raised" /\ exc' = "ValueError"
       ELSE pc' = "connect" /\ exc' = "none"
    /\ UNCHANGED <<config, attempt, sent_total, cycle, idx, message, frame, sock,
                   chunks, data, backoff_seconds, nopen, frames, pending, consecutive,
                   history>>

\* Mutant of the exception path: the finally clause does not close the socket.
RaiseLeavesOpen(e, s, n) ==
    /\ exc' = e
    /\ sock' = s
    /\ nopen' = n
    /\ pending' = <<>>
    /\ conn_frames' = 0
    /\ last_open' = "none"
    /\ IF Caught(e)
       THEN /\ attempt' = attempt + 1
            /\ backoff_seconds' = Backoff(attempt + 1)
            /\ consecutive' = consecutive + 1
            /\ pc' = "backoff"
       ELSE /\ pc' = "raised"
            /\ UNCHANGED <<attempt, backoff_seconds, consecutive>>

\* An exception e raised inside the inner try with sock = s and n sockets open:
\* the finally clause (lines 88-93) closes the socket, then the except clause
\* (lines 94-97) takes it when its type is listed, else it leaves send_messages.
Raise(e, s, n) ==
    /\ exc' = e
    /\ sock' = IF s = "none" THEN "none" ELSE "closed"
    /\ nopen' = IF s = "open" THEN n - 1 ELSE n
    /\ pending' = <<>>
    /\ conn_frames' = 0
    /\ last_open' = "none"
    /\ IF Caught(e)
       THEN /\ attempt' = attempt + 1
            /\ backoff_seconds' = Backoff(attempt + 1)
            /\ consecutive' = consecutive + 1
            /\ pc' = "backoff"
       ELSE /\ pc' = "raised"
            /\ UNCHANGED <<attempt, backoff_seconds, consecutive>>

\* Mutant of the connect: the pass resumes at the message it was interrupted on.
ConnectOkResumes ==
    /\ pc = "connect"
    /\ sock' = "open"
    /\ nopen' = nopen + 1
    /\ pending' = <<>>
    /\ consecutive' = 0
    /\ cycle' = cycle + 1
    /\ idx' = IF idx = 0 THEN 1 ELSE idx
    /\ pc' = "build"
    /\ opened' = opened + 1
    /\ conn_frames' = 0
    /\ last_open' = "connect"
    /\ UNCHANGED <<config, attempt, sent_total, message, frame, chunks, data,
                   backoff_seconds, exc, frames>>

\* Lines 47-51: ensure_socket succeeds, the first pass over the list begins.
ConnectOk ==
    /\ pc = "connect"
    /\ sock' = "open"
    /\ nopen' = nopen + 1
    /\ pending' = <<>>
    /\ consecutive' = 0
    /\ cycle' = cycle + 1
    /\ idx' = 1
    /\ pc' = "build"
    /\ opened' = opened + 1
    /\ conn_frames' = 0
    /\ last_open' = "connect"
    /\ UNCHANGED <<config, attempt, sent_total, message, frame, chunks, data,
                   backoff_seconds, exc, frames>>

\* Lines 47-49: ensure_socket raises; sock is still None.
ConnectFault ==
    /\ pc = "connect"
    /\ attempt < MaxAttempt
    /\ \E e \in ConnectFaults : Raise(e, "none", nopen)
    /\ UNCHANGED <<config, sent_total, cycle, idx, message, frame, chunks, data, frames,
                   opened>>

\* Lines 54-63: rewrite, then encode and frame.
BuildFrame ==
    /\ pc = "build"
    /\ \E token \in UuidTokens :
         LET m == RewriteControlId(messages_list[idx], token) IN
         /\ Encodable(m, encoding)
         /\ message' = m
         /\ frame' = build_mllp_frame(m, encoding)
    /\ pc' = "send"
    /\ UNCHANGED <<config, attempt, sent_total, cycle, idx, sock, chunks, data,
                   backoff_seconds, exc, nopen, frames, pending, consecutive,
                   history>>

\* Line 63 via line 16: the strict encoder raises UnicodeEncodeError.
EncodeFault ==
    /\ pc = "build"
    /\ \E token \in UuidTokens :
         LET m == RewriteControlId(messages_list[idx], token) IN
         /\ ~Encodable(m, encoding)
         /\ message' = m
    /\ Raise("UnicodeEncodeError", sock, nopen)
    /\ UNCHANGED <<config, sent_total, cycle, idx, frame, chunks, data, frames,
                   opened>>

\* Line 64: sendall writes the frame; in ack mode the peer answers resp.
SendOk(resp) ==
    /\ pc = "send"
    /\ frames < MaxFrames
    /\ frames' = frames + 1
    /\ IF ack
       THEN pc' = "recv" /\ chunks' = <<>> /\ pending' = resp /\ data' = data
       ELSE pc' = "count" /\ UNCHANGED <<chunks, data, pending>>
    /\ conn_frames' = conn_frames + 1
    /\ UNCHANGED <<config, attempt, sent_total, cycle, idx, message, frame, sock,
                   backoff_seconds, exc, nopen, consecutive,
                   opened, last_open>>

\* Line 64: sendall raises.
SendFault ==
    /\ pc = "send"
    /\ attempt < MaxAttempt
    /\ \E e \in StreamFaults : Raise(e, sock, nopen)
    /\ UNCHANGED <<config, sent_total, cycle, idx, message, frame, chunks, data, frames,
                   opened>>

\* d.endswith(END_BLOCK + CARRIAGE_RETURN)
EndsWithTerminator(d) ==
    /\ Len(d) >= 2
    /\ SubSeq(d, Len(d) - 1, Len(d)) = <<END_BLOCK, CARRIAGE_RETURN>>

\* Lines 74-77: the read loop breaks after this chunk.
AckComplete(d) ==
    /\ \E k \in 1..Len(d) : d[k] = END_BLOCK
    /\ EndsWithTerminator(d)

\* Lines 70-77: recv returns a non-empty chunk, any prefix of what is in flight.
RecvData ==
    /\ pc = "recv"
    /\ pending # <<>>
    /\ \E n \in 1..Len(pending) :
         LET d == SubSeq(pending, 1, n) IN
         /\ data' = d
         /\ chunks' = Append(chunks, d)
         /\ pending' = SubSeq(pending, n + 1, Len(pending))
         /\ pc' = IF AckComplete(d) THEN "count" ELSE "recv"
    /\ UNCHANGED <<config, attempt, sent_total, cycle, idx, message, frame, sock,
                   backoff_seconds, exc, nopen, frames, consecutive,
                   history>>

\* Mutant of the closed stream: the loop moves on without counting the message.
RecvClosedUncounted ==
    /\ pc = "recv"
    /\ pending = <<>>
    /\ data' = <<>>
    /\ pc' = "sleep"
    /\ UNCHANGED <<config, attempt, sent_total, cycle, idx, message, frame, sock,
                   chunks, backoff_seconds, exc, nopen, frames, pending, consecutive,
                   history>>

\* Lines 70-72: the peer has closed the stream, recv returns no data.
RecvClosed ==
    /\ pc = "recv"
    /\ pending = <<>>
    /\ data' = <<>>
    /\ pc' = "count"
    /\ UNCHANGED <<config, attempt, sent_total, cycle, idx, message, frame, sock,
                   chunks, backoff_seconds, exc, nopen, frames, pending, consecutive,
                   history>>

\* Mutant of the faulting ack read: the message is counted all the same.
RecvFaultCounted ==
    /\ pc = "recv"
    /\ attempt < MaxAttempt
    /\ sent_total' = sent_total + 1
    /\ \E e \in StreamFaults : Raise(e, sock, nopen)
    /\ UNCHANGED <<config, cycle, idx, message, frame, chunks, data, frames,
                   opened>>

\* Line 70: recv raises (timeout, reset).
RecvFault ==
    /\ pc = "recv"
    /\ attempt < MaxAttempt
    /\ \E e \in StreamFaults : Raise(e, sock, nopen)
    /\ UNCHANGED <<config, sent_total, cycle, idx, message, frame, chunks, data, frames,
                   opened>>

\* Lines 80-82 (and 88-93 on return): count the message, return at the cap.
\* The return leaves the try statement without running its else clause
\* (lines 98-99), which no path reaches.
Count ==
    /\ pc = "count"
    /\ sent_total' = sent_total + 1
    /\ IF CapReached(sent_total + 1, repeat_count)
       THEN pc' = "done" /\ sock' = "closed" /\ nopen' = nopen - 1
       ELSE pc' = "sleep" /\ UNCHANGED <<sock, nopen>>
    /\ UNCHANGED <<config, attempt, cycle, idx, message, frame, chunks, data,
                   backoff_seconds, exc, frames, pending, consecutive,
                   history>>

\* Mutant of the iteration: the loop stays on the same message.
AdvanceStay == idx' = idx /\ cycle' = cycle

\* Lines 50-52: the for loop takes the next message; after the last one the
\* while loop starts the next pass.
Advance ==
    IF idx < Len(messages_list)
    THEN idx' = idx + 1 /\ cycle' = cycle
    ELSE idx' = 1 /\ cycle' = cycle + 1

\* Mutant of the sleep: the connection is kept whatever new_conn_each says.
SleepKeepsConnection ==
    /\ pc = "sleep"
    /\ pc' = "build" /\ Advance
    /\ UNCHANGED <<config, attempt, sent_total, message, frame, sock, chunks, data,
                   backoff_seconds, exc, nopen, frames, pending, consecutive,
                   history>>

\* Line 83 (new_conn_each clear: on to the next message).
Sleep ==
    /\ pc = "sleep"
    /\ IF new_conn_each
       THEN pc' = "reconn" /\ UNCHANGED <<idx, cycle>>
       ELSE pc' = "build" /\ Advance
    /\ UNCHANGED <<config, attempt, sent_total, message, frame, sock, chunks, data,
                   backoff_seconds, exc, nopen, frames, pending, consecutive,
                   history>>

\* Mutant of the recycle: the old socket is not closed.
ReconnOkLeak ==
    /\ pc = "reconn"
    /\ sock' = "open"
    /\ nopen' = nopen + 1
    /\ pending' = <<>>
    /\ consecutive' = 0
    /\ pc' = "build"
    /\ Advance
    /\ opened' = opened + 1
    /\ conn_frames' = 0
    /\ last_open' = "recycle"
    /\ UNCHANGED <<config, attempt, sent_total, message, frame, chunks, data,
                   backoff_seconds, exc, frames>>

\* Lines 86-87: close the socket, ensure_socket succeeds.
ReconnOk ==
    /\ pc = "reconn"
    /\ sock' = "open"
    /\ nopen' = (nopen - 1) + 1
    /\ pending' = <<>>
    /\ consecutive' = 0
    /\ pc' = "build"
    /\ Advance
    /\ opened' = opened + 1
    /\ conn_frames' = 0
    /\ last_open' = "recycle"
    /\ UNCHANGED <<config, attempt, sent_total, message, frame, chunks, data,
                   backoff_seconds, exc, frames>>

\* Lines 86-87: close the socket, ensure_socket raises; sock still names the
\* closed socket.
ReconnFault ==
    /\ pc = "reconn"
    /\ attempt < MaxAttempt
    /\ \E e \in ConnectFaults : Raise(e, "closed", nopen - 1)
    /\ UNCHANGED <<config, sent_total, cycle, idx, message, frame, chunks, data, frames,
                   opened>>

\* Line 97, then lines 40-47: the backoff sleep ends, the outer loop goes round.
BackoffSleep ==
    /\ pc = "backoff"
    /\ pc' = "connect"
    /\ sock' = "none"
    /\ exc' = "none"
    /\ UNCHANGED <<config, attempt, sent_total, cycle, idx, message, frame, chunks, data,
                   backoff_seconds, nopen, frames, pending, consecutive,
                   history>>

Next ==
    \/ Start
    \/ ConnectOk
    \/ ConnectFault
    \/ BuildFrame
    \/ EncodeFault
    \/ \E resp \in PeerResponses : SendOk(resp)
    \/ SendFault
    \/ RecvData
    \/ RecvClosed
    \/ RecvFault
    \/ Count
    \/ Sleep
    \/ ReconnOk
    \/ ReconnFault
    \/ BackoffSleep

Spec == Init /\ [][Next]_vars

-----------------------------------------------------------------------------
(* A responsive peer: every connection attempt succeeds, nothing raises, the *)
(* stream stays open and every frame is answered by a terminated ACK.  The   *)
(* runs are those with a positive cap and a non-empty, encodable list.       *)

InitResponsive ==
    /\ Init
    /\ repeat_count > 0
    /\ messages_list # <<>>
    /\ \A k \in 1..Len(messages_list) : Encodable(messages_list[k], encoding)

NextResponsive ==
    \/ Start
    \/ ConnectOk
    \/ BuildFrame
    \/ SendOk(AckFrame)
    \/ RecvData
    \/ Count
    \/ Sleep
    \/ ReconnOk

SpecResponsive == InitResponsive /\ [][NextResponsive]_vars

-----------------------------------------------------------------------------
(* Properties *)

RECURSIVE Flatten(_)
Flatten(cs) == IF cs = <<>> THEN <<>> ELSE Head(cs) \o Flatten(Tail(cs))

BeginsWith(s, prefix) ==
    Len(s) >= Len(prefix) /\ SubSeq(s, 1, Len(prefix)) = prefix

\* The positions of the connect+send cycle in which a Connection is held.
InnerCycle == {"build", "send", "recv", "count", "sleep", "reconn"}

\* C1: with a positive cap N, sent_total never exceeds N, send_messages has
\* returned exactly when sent_total = N, and no frame is written once
\* sent_total = N, whatever faults and reconnects occurred.
C1_CapBoundsSentTotal ==
    /\ [](repeat_count > 0 =>
            /\ sent_total <= repeat_count
            /\ (pc = "done" <=> sent_total = repeat_count))
    /\ [][repeat_count > 0 /\ sent_total = repeat_count => frames' = frames]_vars

\* A run that returned at cap 2 after faults made it write more than 2 frames.
C1_Witness ==
    pc = "done" /\ repeat_count = 2 /\ sent_total = 2 /\ attempt > 0 /\ frames > 2

\* The ack read has nothing to return: the peer has sent its whole answer and
\* sends no more before the next frame.
AckWaitStarved == pc = "recv" /\ pending = <<>>

\* C2: against a responsive peer a run with positive cap N writes exactly N
\* frames and then returns with sent_total = N: it writes no more than N, has
\* written N and counted N when it returns, and is never left waiting in the
\* ack read for bytes the peer, having answered, will not send.
C2_ResponsiveRunSendsCap ==
    /\ frames <= repeat_count
    /\ (pc = "done" => frames = repeat_count /\ sent_total = repeat_count)
    /\ ~AckWaitStarved

\* C3 as claimed: a failed encoding is handled like a connection fault, the
\* Connection closed and the run in backoff, not ended.
C3_EncodeFaultBacksOff ==
    exc = "UnicodeEncodeError" => pc = "backoff" /\ nopen = 0

\* C3 as amended: a failed encoding is not caught; the finally clause closes
\* the Connection and the exception leaves send_messages, which ends the run
\* with no backoff and no retry.
C3_EncodeFaultPropagates ==
    /\ [](exc = "UnicodeEncodeError" => pc = "raised" /\ nopen = 0 /\ sock = "closed")
    /\ [][exc' = "UnicodeEncodeError" =>
            /\ attempt' = attempt
            /\ backoff_seconds' = backoff_seconds
            /\ sent_total' = sent_total
            /\ frames' = frames]_vars
    /\ [][pc = "raised" => pc' = "raised"]_vars

\* The second message of the list failed to encode after the first was sent.
C3_Witness ==
    pc = "raised" /\ exc = "UnicodeEncodeError" /\ idx = 2 /\ sent_total = 1

\* C4: every successful connection resets attempt to 0 before the inner cycle
\* begins, so the first backoff after a fault that follows a successful
\* connection is 2.
C4_ConnectResetsAttempt ==
    /\ (pc \in InnerCycle => attempt = 0)
    /\ (pc = "backoff" /\ consecutive = 1 => backoff_seconds = 2)

\* C5: after k consecutive faults with no successful connection in between
\* the backoff is min(30, 1 + k), never below 2 and never above 30.
C5_BackoffOfConsecutiveFaults ==
    pc = "backoff" =>
        /\ backoff_seconds = Min(30, 1 + consecutive)
        /\ backoff_seconds >= 2
        /\ backoff_seconds <= 30

\* send_messages has been left: by its return or by an exception.
Ended == pc \in {"done", "raised"}

\* C6 as claimed: a connection fault never leaves send_messages, it always
\* leads to the backoff, and a run over a non-empty list ends only in Done,
\* reached by hitting a positive cap.
C6_OnlyDoneIsTerminal ==
    /\ (pc = "raised" => exc \notin ConnectFaults \cup StreamFaults)
    /\ (exc \in ConnectFaults \cup StreamFaults => pc = "backoff")
    /\ (messages_list # <<>> /\ Ended =>
            pc = "done" /\ repeat_count > 0 /\ sent_total = repeat_count)

\* C6 as amended: a connection fault never leaves send_messages and always
\* leads to the backoff and from there to a new connection attempt; a run
\* over a non-empty list ends only in Done, reached by hitting a positive
\* cap, or by an exception that is no connection fault leaving send_messages.
C6_FaultsNeverEscape ==
    /\ [](pc = "raised" => exc \notin ConnectFaults \cup StreamFaults)
    /\ [](exc \in ConnectFaults \cup StreamFaults => pc = "backoff")
    /\ [][(pc = "backoff") => (pc' = "connect" /\ nopen' = 0)]_vars
    /\ [](messages_list # <<>> /\ Ended =>
            \/ pc = "done" /\ repeat_count > 0 /\ sent_total = repeat_count
            \/ pc = "raised" /\ exc = "UnicodeEncodeError")

\* A fault of the ack read is being backed off, after an earlier fault.
C6_Witness ==
    pc = "backoff" /\ exc = "ConnectionResetError" /\ ack /\ frames > sent_total
        /\ attempt = 2

\* C7: in ack mode the read loop goes on exactly until the peer closes the
\* stream or the bytes accumulated since the write end with 0x1C 0x0D,
\* however the ACK is split over the reads.
C7_AckWaitStopsAtTerminator ==
    ack =>
        /\ (pc = "recv" => ~EndsWithTerminator(Flatten(chunks)))
        /\ (pc = "count" => data = <<>> \/ EndsWithTerminator(Flatten(chunks)))

\* C8: a fault of the ack read leaves sent_total as it was; sent_total never
\* decreases and is carried unchanged through close, backoff and reconnect.
C8_FaultKeepsSentTotal ==
    /\ [][sent_total' >= sent_total]_vars
    /\ [][(pc = "recv" /\ pc' = "backoff") => (sent_total' = sent_total)]_vars
    /\ [][(pc \in {"backoff", "connect"}) => (sent_total' = sent_total)]_vars

\* The ack read of the second frame faulted after the first message was
\* counted, and the Driver has reconnected.
C8_Witness ==
    /\ pc = "build" /\ ack /\ attempt = 1 /\ sent_total = 1 /\ frames = 2
    /\ chunks # <<>> /\ ~EndsWithTerminator(Flatten(chunks))

C10_RewriteOnlyHeaderSegment ==
    pc = "send" =>
        LET orig == messages_list[idx]
            first == Split(orig, CR)[1]
        IN /\ (message # orig =>
                   BeginsWith(first, MSH_MARK) /\ Len(Split(first, "|")) >= 10)
           /\ (~BeginsWith(first, MSH_MARK) =>
                   frame = build_mllp_frame(orig, encoding))

-----------------------------------------------------------------------------
(* The codec and the rewrite on their own: the Driver holds a connection   *)
(* and is about to handle the one message of its list.                     *)

\* Ends of a message after its first segment.
CodecTails ==
    { <<>>, <<CR>> \o Seg(PID, 1), <<CR>> \o Seg(MSH, 1) \o <<CR>> \o Seg(PID, 1),
      <<CR>> \o Seg(PID, 1) \o <<"e'">> }

CodecInputs ==
    { Seg(tag, n) \o tail : tag \in {MSH, PID, <<"Z">> \o MSH}, n \in 0..MaxFields,
                            tail \in CodecTails }

InitCodec ==
    /\ messages_list \in {<<m>> : m \in CodecInputs}
    /\ encoding \in {"ascii", "utf-8", "latin-1"}
    /\ repeat_count = 0
    /\ ack = FALSE
    /\ new_conn_each = FALSE
    /\ pc = "build"
    /\ attempt = 0
    /\ sent_total = 0
    /\ cycle = 1
    /\ idx = 1
    /\ message = <<>>
    /\ frame = <<>>
    /\ sock = "open"
    /\ chunks = <<>>
    /\ data = <<>>
    /\ backoff_seconds = 0
    /\ exc = "none"
    /\ nopen = 1
    /\ frames = 0
    /\ pending = <<>>
    /\ consecutive = 0
    /\ opened = 1
    /\ conn_frames = 0
    /\ last_open = "connect"

NextCodec ==
    \/ BuildFrame
    \/ EncodeFault

SpecCodec == InitCodec /\ [][NextCodec]_vars

Chars == {"M", "S", "H", "P", "I", "D", "Z", "|", CR, "a", "u", "1", "2", "e'"}

\* The character of a code point.
Chr(n) == CHOOSE c \in Chars : Ord(c) = n

\* bytes.decode(enc): one byte a character, but for the two-byte sequences of
\* utf-8 (lead byte 0xC0..0xDF, then a continuation byte).
RECURSIVE Decode(_, _)
Decode(b, enc) ==
    IF b = <<>> THEN <<>>
    ELSE IF enc = "utf-8" /\ b[1] >= 192
         THEN <<Chr((b[1] - 192) * 64 + (b[2] - 128))>> \o Decode(SubSeq(b, 3, Len(b)), enc)
         ELSE <<Chr(b[1])>> \o Decode(Tail(b), enc)

\* C11: the message sent differs from the original at most in field 9 of the
\* first segment: the segments after the first, their number, the number of
\* fields of the first segment and its fields other than field 9 are the
\* original's.
C11_RewriteTouchesOnlyField9 ==
    pc = "send" =>
        LET po == Split(messages_list[idx], CR)
            pm == Split(message, CR)
            fo == Split(po[1], "|")
            fm == Split(pm[1], "|")
        IN /\ Len(pm) = Len(po)
           /\ \A k \in 2..Len(po) : pm[k] = po[k]
           /\ Len(fm) = Len(fo)
           /\ \A k \in 1..Len(fo) : k # 10 => fm[k] = fo[k]

\* A rewritten message of three segments whose header has fields after field 9.
C11_Witness ==
    /\ pc = "send" /\ message # messages_list[idx]
    /\ Len(Split(message, CR)) = 3
    /\ Len(Split(Split(message, CR)[1], "|")) > 10
    /\ Split(Split(message, CR)[1], "|")[10] \in UuidTokens

\* C12: a message whose first segment has fewer than ten fields is not
\* rewritten, and the frame sent carries the encoding of the original.
C12_ShortHeaderSentUnchanged ==
    (pc = "send" /\ Len(Split(Split(messages_list[idx], CR)[1], "|")) < 10) =>
        /\ message = messages_list[idx]
        /\ SubSeq(frame, 2, Len(frame) - 2) = EncodeStr(messages_list[idx], encoding)

\* A header segment of nine fields that begins with "MSH|" was framed.
C12_Witness ==
    /\ pc = "send"
    /\ BeginsWith(messages_list[idx], MSH_MARK)
    /\ Len(Split(Split(messages_list[idx], CR)[1], "|")) = 9

\* C16: for an encodable message the frame begins with 0x0B, ends with
\* 0x1C 0x0D, is three bytes longer than the encoded payload, and the bytes
\* between the markers decode back to the message.
C16_FrameRoundTrip ==
    pc = "send" =>
        /\ frame[1] = 11
        /\ frame[Len(frame) - 1] = 28
        /\ frame[Len(frame)] = 13
        /\ Len(frame) = Len(EncodeStr(message, encoding)) + 3
        /\ Decode(SubSeq(frame, 2, Len(frame) - 2), encoding) = message

\* A message with a two-byte character was framed under utf-8.
C16_Witness ==
    /\ pc = "send" /\ encoding = "utf-8"
    /\ \E k \in 1..Len(message) : message[k] = "e'"
    /\ Len(frame) = Len(message) + 4

-----------------------------------------------------------------------------
(* The send loop as a whole.                                               *)

\* No fault has been caught so far: attempt is never reset.
NoFaultSoFar == attempt = 0 /\ messages_list # <<>>

\* The frame of the message at idx has been written and the loop has not yet
\* moved on.
FrameWritten == pc \in {"recv", "count", "sleep", "reconn"}

\* The frame carries the message at index k of the list (rewritten or not).
Carries(k) ==
    \E token \in UuidTokens :
        frame = build_mllp_frame(RewriteControlId(messages_list[k], token), encoding)

\* C13: while no fault has occurred, the i-th frame written carries message
\* ((i-1) mod n) of the list, and the frame about to be written as the
\* (i+1)-th carries message (i mod n); the pass number is ((i-1) div n) + 1.
C13_RoundRobinOrder ==
    NoFaultSoFar =>
        LET n == Len(messages_list) IN
        /\ FrameWritten =>
              /\ idx = ((frames - 1) % n) + 1
              /\ cycle = ((frames - 1) \div n) + 1
              /\ Carries(((frames - 1) % n) + 1)
        /\ pc = "build" => idx = (frames % n) + 1
        /\ pc = "send" => idx = (frames % n) + 1 /\ Carries((frames % n) + 1)

\* The third frame of a two-message list has been written: the first message
\* again, in the second pass.
C13_Witness ==
    /\ NoFaultSoFar /\ Len(messages_list) = 2
    /\ pc = "sleep" /\ frames = 3 /\ idx = 1 /\ cycle = 2

\* C14: while no fault has occurred, with new_conn_each set every frame is
\* written on a connection of its own, opened after the sleep that follows the
\* previous counted send and after the previous connection was closed, and a
\* run that returns at cap N has opened N connections; with new_conn_each
\* clear one connection is opened and carries every frame.
C14_ConnectionPerMessage ==
    /\ [](NoFaultSoFar /\ new_conn_each =>
             /\ conn_frames <= 1
             /\ FrameWritten => opened = frames /\ conn_frames = 1
             /\ pc \in {"build", "send"} => opened = frames + 1 /\ conn_frames = 0
             /\ pc = "done" => opened = repeat_count /\ frames = repeat_count)
    /\ [](NoFaultSoFar /\ ~new_conn_each =>
             /\ opened <= 1
             /\ pc \in InnerCycle \cup {"done"} => opened = 1 /\ conn_frames = frames
             /\ pc # "reconn")
    /\ [][(NoFaultSoFar /\ new_conn_each /\ pc = "sleep" /\ pc' # "sleep") =>
             (pc' = "reconn" /\ opened' = opened /\ frames' = frames)]_vars
    /\ [][(NoFaultSoFar /\ pc = "reconn" /\ pc' = "build") =>
             (opened' = opened + 1 /\ nopen' = 1 /\ frames' = frames)]_vars

\* A run with new_conn_each set returned at cap 2 having opened two connections.
C14_Witness ==
    /\ NoFaultSoFar /\ new_conn_each
    /\ pc = "done" /\ repeat_count = 2 /\ opened = 2 /\ frames = 2

\* C15 as claimed: with cap 0 a run over a non-empty list never reaches a
\* terminal state.
C15_CapZeroNeverEnds ==
    (repeat_count = 0 /\ messages_list # <<>>) => ~Ended

\* C15 as amended: with cap 0 send_messages never returns, every counted send
\* goes on to the sleep, and a run over a non-empty list ends only by an
\* encoding error leaving send_messages; a return happens only at a positive
\* cap.
C15_CapZeroNeverReturns ==
    /\ [](repeat_count = 0 => pc # "done")
    /\ [](pc = "done" => repeat_count > 0)
    /\ [][(repeat_count = 0 /\ pc = "count") =>
             (pc' = "sleep" /\ sent_total' = sent_total + 1)]_vars
    /\ []((repeat_count = 0 /\ messages_list # <<>> /\ Ended) =>
             (pc = "raised" /\ exc = "UnicodeEncodeError"))

\* With cap 0, after a counted send and a backed-off fault, the run ended by an
\* encoding error.
C15_Witness ==
    /\ repeat_count = 0 /\ sent_total >= 1 /\ attempt >= 1
    /\ pc = "raised" /\ exc = "UnicodeEncodeError"

\* C17: over an empty list the run goes from its start straight to the
\* raised ValueError: no connection is attempted or opened, nothing is slept,
\* the retry loop is not entered.
C17_EmptyListRejectedFirst ==
    messages_list = <<>> =>
        /\ pc \in {"start", "raised"}
        /\ pc = "raised" => exc = "ValueError"
        /\ sock = "none" /\ nopen = 0 /\ opened = 0 /\ frames = 0
        /\ attempt = 0 /\ backoff_seconds = 0 /\ cycle = 0 /\ sent_total = 0

\* The empty list has been rejected.
C17_Witness ==
    messages_list = <<>> /\ pc = "raised" /\ exc = "ValueError"

\* C18: on a connection opened by the outer loop (the first one, or the one
\* after a fault) the first frame carries the first message of the list,
\* whatever message the fault interrupted; the fault, the backoff and the
\* new connection leave sent_total as it was.
C18_FaultRestartsAtFirstMessage ==
    /\ []((pc \in {"build", "send"} /\ last_open = "connect" /\ conn_frames = 0) =>
             (idx = 1 /\ (pc = "send" => Carries(1))))
    /\ [][(last_open = "connect" /\ conn_frames = 0 /\ frames' = frames + 1) =>
             (idx = 1 /\ Carries(1) /\ idx' = 1 /\ frame' = frame)]_vars
    /\ [][(pc' = "backoff" \/ pc \in {"backoff", "connect"}) =>
             (sent_total' = sent_total)]_vars

\* One message of a two-message list was counted, the send of the second one
\* failed, and the frame written on the next connection is the first message.
C18_Witness ==
    /\ ~ack /\ ~new_conn_each /\ Len(messages_list) = 2
    /\ attempt = 1 /\ sent_total = 1 /\ frames = 2
    /\ pc = "count" /\ idx = 1 /\ conn_frames = 1 /\ last_open = "connect"
    /\ Carries(1)

\* The ack wait was ended by a read that returned no data.
ClosedByPeer == ack /\ pc = "count" /\ data = <<>>

\* C19: in ack mode the ack wait is left either by a fault or towards the
\* count; when a read returns no data no fault is raised and nothing of the
\* backoff changes, and the message is then counted and the loop goes on to
\* the cap check and the sleep.
C19_PeerClosureCountsAsSent ==
    /\ [][(pc = "recv" /\ pc' \notin {"recv", "backoff"}) => (pc' = "count")]_vars
    /\ [][(pc = "recv" /\ pc' = "count" /\ data' = <<>>) =>
             (/\ attempt' = attempt /\ backoff_seconds' = backoff_seconds
              /\ exc' = exc /\ sock' = sock /\ nopen' = nopen
              /\ sent_total' = sent_total)]_vars
    /\ [](ClosedByPeer => exc = "none" /\ sock = "open")
    /\ [][ClosedByPeer =>
             (/\ sent_total' = sent_total + 1
              /\ attempt' = attempt /\ backoff_seconds' = backoff_seconds
              /\ pc' = IF CapReached(sent_total + 1, repeat_count)
                       THEN "done" ELSE "sleep")]_vars

\* The peer closed after an unterminated part of an ACK; the message was
\* counted and the Driver is sleeping the interval, no fault so far.
C19_Witness ==
    /\ ack /\ pc = "sleep" /\ data = <<>> /\ chunks = <<<<START_BLOCK, 65>>>>
    /\ sent_total = 1 /\ frames = 1 /\ attempt = 0

\* C20: wherever the Driver is backing off no Connection is open; the fault
\* that leads to the backoff closes it, and the backoff ends only by the
\* sleep finishing, with no connection opened meanwhile.
C20_NoConnectionDuringBackoff ==
    /\ [](pc = "backoff" => nopen = 0 /\ sock \in {"none", "closed"})
    /\ [][(pc # "backoff" /\ pc' = "backoff") =>
             (nopen' = 0 /\ sock' # "open" /\ opened' = opened)]_vars
    /\ [][(pc = "backoff") =>
             (opened' = opened /\ nopen' = 0 /\ pc' \in {"backoff", "connect"})]_vars

\* A read timed out on an open connection: it is closed and the backoff runs.
C20_Witness ==
    /\ pc = "backoff" /\ exc = "TimeoutError" /\ sock = "closed" /\ nopen = 0
    /\ ack /\ frames >= 1 /\ opened >= 1

====
